---- MODULE Spec2Model ----
(***************************************************************************)
(* The pending-transcription tracker of client/src/pages/ChatPage.tsx, as  *)
(* written by tmp_rewrite.py (and, with the same control flow, by          *)
(* tmp_overwrite.py): the handleTranscription callback and its inner       *)
(* pollOperation loop.                                                     *)
(*                                                                         *)
(* JavaScript runs one task at a time, so every stretch of code between    *)
(* two awaits is one atomic action.  Two invocations of the callback are   *)
(* modelled (Procs); they interleave only at their awaits.  The page that  *)
(* owns the callback can be left while an invocation is still polling     *)
(* (tearDown); the callback reads nothing that would tell it so.           *)
(*                                                                         *)
(* Strings that the code takes apart (the transcribed text, the operation  *)
(* id, the file name) are sequences of character codes; strings that are   *)
(* only passed on (messages of the error sink, chat and skill ids) are     *)
(* TLA+ strings.                                                           *)
(***************************************************************************)
EXTENDS Integers, Sequences, FiniteSets, TLC

\* ------------------------------------------------------------- bounds

\* While two invocations are both started, the server answers each with a
\* non-terminal response only during its first MaxOverlapAttempts attempts,
\* and the second invocation starts only while the first has made fewer
\* attempts than that.  The same holds of the page being left: it is left
\* while the first invocation has made fewer attempts than that, and
\* afterwards the server holds the invocation up only during those first
\* attempts.  An invocation running alone on a page that stays is not
\* restricted.
MaxOverlapAttempts == 1

\* How often queryClient.invalidateQueries may reject for one invocation.
MaxRefreshFailures == 1

\* Date.now() reads the values 0..MaxClock (milliseconds since its first
\* reading).
MaxClock == 1

\* ------------------------------------------------------ program constants

\* const maxAttempts = 600;
maxAttempts == 600

\* '__PENDING_OPERATION:'
SentinelPrefix ==
    <<95, 95, 80, 69, 78, 68, 73, 78, 71, 95,
      79, 80, 69, 82, 65, 84, 73, 79, 78, 58>>

\* ':' , the separator given to split
Separator == <<58>>

\* 'audio'
DefaultFileName == <<97, 117, 100, 105, 111>>

\* The messages of the error sink and the content of the transcript entry;
\* the Russian texts of the source are given in English.
ConfigErrorMessage ==
    "Unica Chat skill is not configured. Please contact the administrator."
FailedFallbackMessage == "Transcription failed. Try again."
TimeoutMessage == "Transcription took too long. Try again."
ProcessingContent == "Audio uploaded. Transcribing..."

\* ------------------------------------------------------ JavaScript values

\* undefined (an array index out of range, an absent property) and null
Undefined == <<-1>>
Null == "<null>"
Absent == "<absent>"

\* The value decodeURIComponent's URIError is modelled by.
URIError == <<-2>>

\* JavaScript truthiness of a string-or-undefined value (character codes).
Truthy(v) == v # Undefined /\ v # << >>

\* JavaScript truthiness of a string-or-null/undefined value (TLA+ string).
TruthyStr(s) == s # Null /\ s # Absent /\ s # ""

\* a ?? b
Coalesce(a, b) == IF a = Null \/ a = Absent THEN b ELSE a

\* a || b
OrElse(a, b) == IF TruthyStr(a) THEN a ELSE b

\* ------------------------------------------------------ string functions

\* s.startsWith(prefix)
StartsWith(s, prefix) ==
    /\ Len(s) >= Len(prefix)
    /\ SubSeq(s, 1, Len(prefix)) = prefix

\* s.substring(start), start counted from 0
Substring(s, start) == SubSeq(s, start + 1, Len(s))

RECURSIVE SplitFrom(_, _, _, _)
SplitFrom(s, i, cur, acc) ==
    IF i > Len(s) THEN Append(acc, cur)
    ELSE IF <<s[i]>> = Separator THEN SplitFrom(s, i + 1, << >>, Append(acc, cur))
    ELSE SplitFrom(s, i + 1, Append(cur, s[i]), acc)

\* s.split(':') : every field, the empty ones included; ''.split(':') is ['']
Split(s) == SplitFrom(s, 1, << >>, << >>)

\* parts[k], k counted from 0
At(parts, k) == IF k + 1 <= Len(parts) THEN parts[k + 1] ELSE Undefined

\* The value of a hexadecimal digit, -1 for any other character.
HexVal(c) ==
    IF c >= 48 /\ c <= 57 THEN c - 48
    ELSE IF c >= 65 /\ c <= 70 THEN c - 55
    ELSE IF c >= 97 /\ c <= 102 THEN c - 87
    ELSE -1

\* The octet of the escape %XX at position k, -1 when there is none.
OctetAt(s, k) ==
    IF /\ k + 2 <= Len(s)
       /\ s[k] = 37
       /\ HexVal(s[k + 1]) >= 0
       /\ HexVal(s[k + 2]) >= 0
    THEN 16 * HexVal(s[k + 1]) + HexVal(s[k + 2])
    ELSE -1

\* The continuation octet (10xxxxxx) of the escape at position k, else -1.
ContinuationAt(s, k) ==
    LET b == OctetAt(s, k) IN IF b >= 128 /\ b <= 191 THEN b - 128 ELSE -1

\* How many octets the UTF-8 sequence led by octet b has, 0 for no lead octet.
Utf8Length(b) ==
    IF b < 128 THEN 1
    ELSE IF b >= 194 /\ b <= 223 THEN 2
    ELSE IF b >= 224 /\ b <= 239 THEN 3
    ELSE IF b >= 240 /\ b <= 244 THEN 4
    ELSE 0

\* The code point of the UTF-8 sequence of n escapes at position k, -1 when
\* the escapes are no valid encoding of a code point.
CodePointAt(s, k, n) ==
    LET b  == OctetAt(s, k)
        c1 == ContinuationAt(s, k + 3)
        c2 == ContinuationAt(s, k + 6)
        c3 == ContinuationAt(s, k + 9)
    IN  IF n = 1 THEN b
        ELSE IF n = 2 THEN
            IF c1 < 0 THEN -1 ELSE (b - 192) * 64 + c1
        ELSE IF n = 3 THEN
            IF c1 < 0 \/ c2 < 0 THEN -1
            ELSE LET cp == (b - 224) * 4096 + c1 * 64 + c2
                 IN  IF cp < 2048 \/ (cp >= 55296 /\ cp <= 57343) THEN -1 ELSE cp
        ELSE IF n = 4 THEN
            IF c1 < 0 \/ c2 < 0 \/ c3 < 0 THEN -1
            ELSE LET cp == (b - 240) * 262144 + c1 * 4096 + c2 * 64 + c3
                 IN  IF cp < 65536 \/ cp > 1114111 THEN -1 ELSE cp
        ELSE -1

\* The UTF-16 code units of a code point.
CodeUnits(cp) ==
    IF cp < 65536 THEN <<cp>>
    ELSE <<55296 + ((cp - 65536) \div 1024), 56320 + ((cp - 65536) % 1024)>>

RECURSIVE DecodeFrom(_, _, _)
DecodeFrom(s, k, acc) ==
    IF k > Len(s) THEN acc
    ELSE IF s[k] # 37 THEN DecodeFrom(s, k + 1, Append(acc, s[k]))
    ELSE LET b  == OctetAt(s, k)
             n  == IF b < 0 THEN 0 ELSE Utf8Length(b)
             cp == IF n = 0 THEN -1 ELSE CodePointAt(s, k, n)
         IN  IF cp < 0 THEN URIError
             ELSE DecodeFrom(s, k + 3 * n, acc \o CodeUnits(cp))

\* decodeURIComponent(s): the decoded string, or URIError when it throws
decodeURIComponent(s) == DecodeFrom(s, 1, << >>)

\* ------------------------------------------------------------- inputs

Procs == {1, 2}

OpIdA == <<111, 112, 49>>
OpIdB == <<111, 112, 50>>

\* The texts handleTranscription is called with.
Texts ==
    { <<104, 105>>,                                          \* hi
      SubSeq(SentinelPrefix, 1, 19),                         \* the prefix without its colon
      SentinelPrefix,                                        \* no operation id
      SentinelPrefix \o OpIdA,                               \* op1
      SentinelPrefix \o OpIdA \o <<58>>,                     \* op1:
      SentinelPrefix \o OpIdA \o <<58, 97, 37, 50, 48, 98>>, \* op1:a%20b
      SentinelPrefix \o OpIdB \o <<58, 37, 68, 48, 37, 66, 48>>, \* op2:%D0%B0
      SentinelPrefix \o OpIdA \o <<58, 37>>,                 \* op1:%
      SentinelPrefix \o OpIdB \o <<58, 97, 37, 56, 48>> }    \* op2:a%80

\* workspaceId
WorkspaceIds == {Absent, "ws1"}

\* effectiveChatId
EffectiveChatIds == {Absent, "chat0"}

\* activeChat?.skillId, activeSkill?.id, defaultSkill?.id
ActiveChatSkillIds == {Absent, Null, "skillA"}
ActiveSkillIds == {Absent, "skillB"}
DefaultSkillIds == {Absent, "skillC"}

\* The ids createChat gives to the conversations it creates, in order.
NewChatIds == <<"chat1", "chat2">>

\* error.message of a createChat rejection
CreateErrorMessages == {"create failed"}

\* What awaiting fetch(...) and response.json() can give: a rejection, a
\* response that is not ok, a body that is no JSON, or a status object.
Responses ==
    {[kind |-> k, status |-> Absent, error |-> Absent] :
        k \in {"reject", "not-ok", "bad-json"}}
    \cup {[kind |-> "json", status |-> s, error |-> Absent] :
        s \in {"completed", "processing", Absent}}
    \cup {[kind |-> "json", status |-> "failed", error |-> e] :
        e \in {Absent, "", "bad audio"}}

\* -------------------------------------------------------------- state

VARIABLES
    \* React state and collaborators, shared by all invocations
    isTranscribing,   \* the busy flag
    streamError,      \* the error sink, Null while nothing was reported
    localMessages,    \* the locally-held message sequence
    localChatId,
    overrideChatId,
    selectedChatId,   \* what handleSelectChat was last called with
    chats,            \* how many conversations createChat has created
    invalidations,    \* how many times invalidateQueries was called
    now,              \* what Date.now() last read
    tornDown,         \* the page that owns the callback has been left
    \* one invocation of handleTranscription
    pc,               \* idle, creating, fetching, waiting, invalidating, done
    text,             \* transcribedText
    operationId,
    fileName,
    targetChatId,
    skillId,
    attempts,
    \* what an invocation has done so far (history, read by the properties)
    outcome,
    requests,         \* status requests issued
    waits,            \* fixed-interval waits begun
    nonTerminal,      \* responses classified TransientError or Pending
    refreshFailures,  \* rejections of invalidateQueries
    sawCompleted,     \* a response with status completed was received
    busySets,         \* calls of setIsTranscribing(true)
    busyClears,       \* calls of setIsTranscribing(false)
    creates,          \* calls of createChat
    injected,         \* entries appended to localMessages
    reported,         \* the messages given to setStreamError, in order
    failure,          \* the error field of the status object that said failed
    sources           \* what the invocation found when it looked for a target:
                      \* "chat" (effectiveChatId holds a conversation),
                      \* "skill" (none, and a skill source holds a skill),
                      \* "none" (neither); "unread" before it looks

busyVars == <<isTranscribing, busySets, busyClears>>
errVars == <<streamError, reported>>
chatVars == <<localMessages, localChatId, overrideChatId, selectedChatId,
              chats, creates, injected>>
parseVars == <<text, operationId, fileName, targetChatId, skillId, sources>>
pollVars == <<requests, waits, nonTerminal, refreshFailures, sawCompleted,
              invalidations, failure>>
vars == <<busyVars, errVars, chatVars, parseVars, pollVars,
          pc, attempts, outcome, now, tornDown>>

Init ==
    /\ isTranscribing = FALSE
    /\ streamError = Null
    /\ localMessages = << >>
    /\ localChatId = Null
    /\ overrideChatId = Null
    /\ selectedChatId = Null
    /\ chats = 0
    /\ invalidations = 0
    /\ now = 0
    /\ tornDown = FALSE
    /\ pc = [p \in Procs |-> "idle"]
    /\ text = [p \in Procs |-> << >>]
    /\ operationId = [p \in Procs |-> Undefined]
    /\ fileName = [p \in Procs |-> Undefined]
    /\ targetChatId = [p \in Procs |-> Absent]
    /\ skillId = [p \in Procs |-> Absent]
    /\ attempts = [p \in Procs |-> 0]
    /\ outcome = [p \in Procs |-> "none"]
    /\ requests = [p \in Procs |-> 0]
    /\ waits = [p \in Procs |-> 0]
    /\ nonTerminal = [p \in Procs |-> 0]
    /\ refreshFailures = [p \in Procs |-> 0]
    /\ sawCompleted = [p \in Procs |-> FALSE]
    /\ busySets = [p \in Procs |-> 0]
    /\ busyClears = [p \in Procs |-> 0]
    /\ creates = [p \in Procs |-> 0]
    /\ injected = [p \in Procs |-> 0]
    /\ reported = [p \in Procs |-> << >>]
    /\ failure = [p \in Procs |-> Null]
    /\ sources = [p \in Procs |-> "unread"]

Upd(f, p, v) == [f EXCEPT ![p] = v]
Inc(f, p) == [f EXCEPT ![p] = @ + 1]

\* ------------------------------------------------- parts of the handler

\* While another invocation has started, or once the page has been left,
\* the server (and the cache) may hold invocation p up only during its
\* first MaxOverlapAttempts attempts.
MayStall(p) ==
    \/ ~tornDown /\ \A q \in Procs \ {p} : pc[q] = "idle"
    \/ attempts[p] < MaxOverlapAttempts

\* The second invocation is the later one, and starts early in the first.
\* A page that has been left calls the callback no more.
MayStart(p) ==
    /\ ~tornDown
    /\ \/ p = 1
       \/ pc[1] # "idle" /\ attempts[1] < MaxOverlapAttempts

\* The page is left while the first invocation is between two steps of its
\* polling, early in it, and before a second invocation has started.
MayTearDown ==
    /\ ~tornDown
    /\ pc[1] \in {"fetching", "waiting", "invalidating"}
    /\ attempts[1] < MaxOverlapAttempts
    /\ \A q \in Procs \ {1} : pc[q] = "idle"

\* const parts = transcribedText.substring('__PENDING_OPERATION:'.length).split(':');
Parts(t) == Split(Substring(t, Len(SentinelPrefix)))

\* const operationId = parts[0];
ParseOperationId(t) == At(Parts(t), 0)

\* The file name taken as it stands in the text, without decoding.
ParseFileNameRaw(t) ==
    IF Truthy(At(Parts(t), 1)) THEN At(Parts(t), 1) ELSE DefaultFileName

\* const fileName = parts[1] ? decodeURIComponent(parts[1]) : 'audio';
ParseFileName(t) ==
    IF Truthy(At(Parts(t), 1))
    THEN decodeURIComponent(At(Parts(t), 1))
    ELSE DefaultFileName

\* The chain ending in a built-in skill instead of failing.
ResolveSkillBuiltIn(chatSkill, activeSkill, defaultSkill) ==
    Coalesce(Coalesce(Coalesce(chatSkill, activeSkill), defaultSkill), "skillC")

\* const skillId = activeChat?.skillId ?? activeSkill?.id ?? defaultSkill?.id;
ResolveSkill(chatSkill, activeSkill, defaultSkill) ==
    Coalesce(Coalesce(chatSkill, activeSkill), defaultSkill)

\* What Date.now() can read next: time does not go back, it is counted
\* from the first reading, and it has moved on once a wait of 1000 ms has
\* run out since the last reading (the reading of the other invocation,
\* the only one whose attempts can have been counted by then).
ClockReadings ==
    IF localMessages = << >> THEN {now}
    ELSE IF \E q \in Procs : attempts[q] > 0 THEN (now + 1)..MaxClock
    ELSE now..MaxClock

\* buildLocalMessage('user', targetChatId, fileName)
buildLocalMessage(role, chatId, content, time) ==
    [id |-> <<"local", time>>, chatId |-> chatId, role |-> role,
     content |-> content, type |-> Absent, transcriptStatus |-> Absent,
     createdAt |-> time]

\* const assistantMessage: ChatMessage = { ... }
AssistantMessage(chatId, time) ==
    [id |-> <<"local-transcript", time>>, chatId |-> chatId,
     role |-> "assistant", content |-> ProcessingContent,
     type |-> "transcript", transcriptStatus |-> "processing",
     createdAt |-> time]

\* The update computed from the sequence as the callback was created with
\* it (empty), not from the sequence as it is.
AppendPairStale(prev, userMessage, assistantMessage) ==
    <<userMessage, assistantMessage>>

\* (prev) => [...prev, userMessage, assistantMessage]
AppendPair(prev, userMessage, assistantMessage) ==
    prev \o <<userMessage, assistantMessage>>

\* The fallback message whatever the server says.
FailureMessageFixed(error) == FailedFallbackMessage

\* status.error || <the fallback message>
FailureMessage(error) == OrElse(error, FailedFallbackMessage)

\* How a settled status request is classified.
Classify(r) ==
    IF r.kind # "json" THEN "TransientError"
    ELSE IF r.status = "completed" THEN "Completed"
    ELSE IF r.status = "failed" THEN "Failed"
    ELSE "Pending"

\* setStreamError(message)
Report(p, message) ==
    /\ streamError' = message
    /\ reported' = Upd(reported, p, Append(reported[p], message))

\* An end of the handler that returns and leaves the busy flag as it is.
ClearAndReturnBusy(p, result) ==
    /\ pc' = Upd(pc, p, "done")
    /\ outcome' = Upd(outcome, p, result)
    /\ UNCHANGED <<isTranscribing, busyClears>>

\* The end of the handler after pollOperation or on an early return:
\* setIsTranscribing(false); return
ClearAndReturn(p, result) ==
    /\ isTranscribing' = FALSE
    /\ busyClears' = Inc(busyClears, p)
    /\ pc' = Upd(pc, p, "done")
    /\ outcome' = Upd(outcome, p, result)

\* The handler going on to poll without the block that injects the entries.
InjectSkipped(p, chatId, name) ==
    UNCHANGED <<now, localChatId, localMessages, injected>>

\* if (targetChatId) { ...; setLocalChatId(targetChatId); setLocalMessages(...) }
Inject(p, chatId, name) ==
    IF TruthyStr(chatId)
    THEN \E time \in ClockReadings :
         /\ now' = time
         /\ localChatId' = chatId
         /\ localMessages' = AppendPair(localMessages,
                                 buildLocalMessage("user", chatId, name, time),
                                 AssistantMessage(chatId, time))
         /\ injected' = Upd(injected, p, injected[p] + 2)
    ELSE UNCHANGED <<now, localChatId, localMessages, injected>>

\* The loop condition off by one.
WithinBudgetInclusive(a) == a <= maxAttempts

\* The loop condition of pollOperation.
WithinBudget(a) == a < maxAttempts

\* The head of the loop of pollOperation with attempts = a: another status
\* request, or, the budget used up, the timeout message and the end of the
\* handler.  busy is the busy flag as the step has left it so far.
PollLoop(p, a, busy) ==
    /\ attempts' = Upd(attempts, p, a)
    /\ IF WithinBudget(a)
       THEN /\ requests' = Inc(requests, p)
            /\ pc' = Upd(pc, p, "fetching")
            /\ isTranscribing' = busy
            /\ UNCHANGED <<errVars, busyClears, outcome>>
       ELSE /\ Report(p, TimeoutMessage)
            /\ ClearAndReturn(p, "TimedOut")
            /\ UNCHANGED requests

\* await new Promise((resolve) => setTimeout(resolve, 1000));
BeginWait(p) ==
    /\ waits' = Inc(waits, p)
    /\ pc' = Upd(pc, p, "waiting")

\* A catch block that shows the caught error to the user before it waits.
WaitAndRetrySurfaced(p) ==
    /\ BeginWait(p)
    /\ Report(p, "HTTP error")
    /\ UNCHANGED <<isTranscribing, busyClears, outcome>>

\* The rest of a round of the loop that has not returned: the end of the
\* try block on a pending status, or the catch block (console.error only);
\* either way the wait, and nothing else.
WaitAndRetry(p) ==
    /\ BeginWait(p)
    /\ UNCHANGED <<isTranscribing, busyClears, errVars, outcome>>

\* -------------------------------------------------------------- actions

\* handleTranscription(transcribedText), up to its first await or its return.
handleTranscription(p) ==
    /\ pc[p] = "idle"
    /\ MayStart(p)
    /\ UNCHANGED tornDown
    /\ \E workspaceId \in WorkspaceIds, t \in Texts,
          effectiveChatId \in EffectiveChatIds,
          chatSkill \in ActiveChatSkillIds,
          activeSkill \in ActiveSkillIds,
          defaultSkill \in DefaultSkillIds :
        LET skill == ResolveSkill(chatSkill, activeSkill, defaultSkill)
            found == IF effectiveChatId # Absent THEN "chat"
                     ELSE IF \E s \in {chatSkill, activeSkill, defaultSkill} :
                                 s \notin {Absent, Null}
                          THEN "skill" ELSE "none"
        IN
        /\ text' = Upd(text, p, t)
        /\ UNCHANGED <<waits, nonTerminal, refreshFailures, sawCompleted,
                       invalidations, failure, overrideChatId, selectedChatId,
                       chats>>
        /\ IF ~TruthyStr(workspaceId) THEN
               \* if (!workspaceId) return;
               /\ pc' = Upd(pc, p, "done")
               /\ outcome' = Upd(outcome, p, "NoWorkspace")
               /\ UNCHANGED <<busyVars, errVars, now, localMessages, localChatId,
                              creates, injected, operationId, fileName,
                              targetChatId, skillId, sources, requests,
                              attempts>>
           ELSE IF ~StartsWith(t, SentinelPrefix) THEN
               \* setIsTranscribing(true); setIsTranscribing(false); return;
               /\ busySets' = Inc(busySets, p)
               /\ ClearAndReturn(p, "NotSentinel")
               /\ UNCHANGED <<errVars, now, localMessages, localChatId, creates,
                              injected, operationId, fileName, targetChatId,
                              skillId, sources, requests, attempts>>
           ELSE IF ParseFileName(t) = URIError THEN
               \* decodeURIComponent throws: the handler's promise rejects
               /\ isTranscribing' = TRUE
               /\ busySets' = Inc(busySets, p)
               /\ operationId' = Upd(operationId, p, ParseOperationId(t))
               /\ pc' = Upd(pc, p, "done")
               /\ outcome' = Upd(outcome, p, "Thrown")
               /\ UNCHANGED <<busyClears, errVars, now, localMessages, localChatId,
                              creates, injected, fileName, targetChatId,
                              skillId, sources, requests, attempts>>
           ELSE
               /\ busySets' = Inc(busySets, p)
               /\ operationId' = Upd(operationId, p, ParseOperationId(t))
               /\ fileName' = Upd(fileName, p, ParseFileName(t))
               /\ sources' = Upd(sources, p, found)
               /\ IF TruthyStr(effectiveChatId) THEN
                      /\ targetChatId' = Upd(targetChatId, p, effectiveChatId)
                      /\ Inject(p, effectiveChatId, ParseFileName(t))
                      /\ PollLoop(p, 0, TRUE)
                      /\ UNCHANGED <<creates, skillId>>
                  ELSE IF ~TruthyStr(skill) THEN
                      /\ Report(p, ConfigErrorMessage)
                      /\ ClearAndReturn(p, "ConfigError")
                      /\ UNCHANGED <<now, localMessages, localChatId, creates,
                                     injected, targetChatId, skillId,
                                     requests, attempts>>
                  ELSE
                      \* await createChat({ workspaceId, skillId })
                      /\ isTranscribing' = TRUE
                      /\ skillId' = Upd(skillId, p, skill)
                      /\ creates' = Inc(creates, p)
                      /\ pc' = Upd(pc, p, "creating")
                      /\ UNCHANGED <<busyClears, errVars, now, localMessages,
                                     localChatId, injected, targetChatId,
                                     requests, attempts, outcome>>

\* createChat settles: the new conversation is adopted, the entries are
\* injected and polling begins; or the rejection is reported.
createChatSettled(p) ==
    /\ pc[p] = "creating"
    /\ UNCHANGED tornDown
    \* skillId is a constant of the block that ends here
    /\ skillId' = Upd(skillId, p, Absent)
    /\ UNCHANGED <<text, operationId, fileName, sources, busySets,
                   creates, waits, nonTerminal, refreshFailures, sawCompleted,
                   invalidations, failure>>
    /\ \/ LET newChatId == NewChatIds[chats + 1] IN
          /\ chats' = chats + 1
          /\ targetChatId' = Upd(targetChatId, p, newChatId)
          /\ overrideChatId' = newChatId
          /\ selectedChatId' = newChatId
          /\ Inject(p, newChatId, fileName[p])
          /\ PollLoop(p, 0, isTranscribing)
       \/ \E message \in CreateErrorMessages :
          /\ Report(p, message)
          /\ ClearAndReturn(p, "CreateFailed")
          /\ UNCHANGED <<chats, targetChatId, overrideChatId, selectedChatId,
                         now, localMessages, localChatId, injected, requests,
                         attempts>>

\* The status request settles (fetch, response.ok, response.json()).
fetchSettled(p) ==
    /\ pc[p] = "fetching"
    /\ UNCHANGED <<now, tornDown, parseVars, chatVars, busySets, requests, attempts,
                   refreshFailures>>
    /\ \E r \in Responses :
        CASE Classify(r) = "Completed" ->
                \* await queryClient.invalidateQueries(...)
                /\ sawCompleted' = Upd(sawCompleted, p, TRUE)
                /\ invalidations' = invalidations + 1
                /\ pc' = Upd(pc, p, "invalidating")
                /\ UNCHANGED <<isTranscribing, busyClears, errVars, outcome,
                               waits, nonTerminal, failure>>
          [] Classify(r) = "Failed" ->
                /\ failure' = Upd(failure, p, r.error)
                /\ Report(p, FailureMessage(r.error))
                /\ ClearAndReturn(p, "Failed")
                /\ UNCHANGED <<sawCompleted, invalidations, waits, nonTerminal>>
          [] OTHER ->
                \* Pending, or the catch block: wait, then attempts += 1
                /\ MayStall(p)
                /\ nonTerminal' = Inc(nonTerminal, p)
                /\ WaitAndRetry(p)
                /\ UNCHANGED <<sawCompleted, invalidations, failure>>

\* The timer of the wait fires and the loop goes round without counting the
\* attempt.
timerFiredUncounted(p) ==
    /\ pc[p] = "waiting"
    /\ PollLoop(p, attempts[p], isTranscribing)
    /\ UNCHANGED <<now, tornDown, parseVars, chatVars, busySets, waits, nonTerminal,
                   refreshFailures, sawCompleted, invalidations, failure>>

\* The timer of the wait fires: attempts += 1, and the loop goes round.
timerFired(p) ==
    /\ pc[p] = "waiting"
    /\ PollLoop(p, attempts[p] + 1, isTranscribing)
    /\ UNCHANGED <<now, tornDown, parseVars, chatVars, busySets, waits, nonTerminal,
                   refreshFailures, sawCompleted, invalidations, failure>>

\* invalidateQueries settles: pollOperation returns and the handler ends;
\* a rejection is caught by the catch block of the loop.
invalidateSettled(p) ==
    /\ pc[p] = "invalidating"
    /\ UNCHANGED <<now, tornDown, parseVars, chatVars, busySets, requests, attempts,
                   nonTerminal, sawCompleted, invalidations, failure>>
    /\ \/ /\ ClearAndReturn(p, "Completed")
          /\ UNCHANGED <<errVars, waits, refreshFailures>>
       \/ /\ MayStall(p)
          /\ refreshFailures[p] < MaxRefreshFailures
          /\ refreshFailures' = Inc(refreshFailures, p)
          /\ WaitAndRetry(p)

\* The page that owns the callback is left (the component unmounts).  The
\* callback holds no abort signal and reads no mounted flag, so nothing of
\* an invocation changes with it.
tearDown ==
    /\ MayTearDown
    /\ tornDown' = TRUE
    /\ UNCHANGED <<busyVars, errVars, chatVars, parseVars, pollVars,
                   pc, attempts, outcome, now>>

Next ==
    \/ tearDown
    \/ \E p \in Procs : handleTranscription(p)
    \/ \E p \in Procs : createChatSettled(p)
    \/ \E p \in Procs : fetchSettled(p)
    \/ \E p \in Procs : timerFired(p)
    \/ \E p \in Procs : invalidateSettled(p)

Spec == Init /\ [][Next]_vars

\* ------------------------------------------------------------ properties

\* The invocation has begun (its first stretch of code has run).
Started(p) == pc[p] # "idle"

\* The invocation has gone past the parser: it awaits createChat or polls.
Tracking(p) == pc[p] \in {"creating", "fetching", "waiting", "invalidating"}

Last(seq) == seq[Len(seq)]

\* C1: an invocation with a text that does not start with the sentinel
\* prefix writes nothing: it calls neither setIsTranscribing nor
\* setStreamError, parses no operation id or file name, sets no target
\* conversation, creates no conversation, injects no entry and issues no
\* status request.
C1_NoSideEffects ==
    \A p \in Procs :
        (Started(p) /\ ~StartsWith(text[p], SentinelPrefix)) =>
            /\ busySets[p] = 0
            /\ busyClears[p] = 0
            /\ reported[p] = << >>
            /\ operationId[p] = Undefined
            /\ fileName[p] = Undefined
            /\ targetChatId[p] = Absent
            /\ creates[p] = 0
            /\ injected[p] = 0
            /\ requests[p] = 0

\* Sentinel texts with the operation id and the display name they carry.
ParseCases ==
    { [text |-> SentinelPrefix \o OpIdA,
       id |-> OpIdA, name |-> DefaultFileName],
      [text |-> SentinelPrefix \o OpIdA \o <<58>>,
       id |-> OpIdA, name |-> DefaultFileName],
      [text |-> SentinelPrefix \o OpIdA \o <<58, 97, 37, 50, 48, 98>>,
       id |-> OpIdA, name |-> <<97, 32, 98>>],
      [text |-> SentinelPrefix \o OpIdB \o <<58, 37, 68, 48, 37, 66, 48>>,
       id |-> OpIdB, name |-> <<1072>>] }

\* C2: of a sentinel text with a colon-free operation id and a validly
\* percent-encoded second field, the tracker holds the operation id exactly
\* and the percent-decoded second field as the display name; without a
\* second field, or with an empty one, the display name is 'audio'.
C2_ParseRecovers ==
    \A p \in Procs :
        \A c \in ParseCases :
            (Tracking(p) /\ text[p] = c.text) =>
                /\ operationId[p] = c.id
                /\ fileName[p] = c.name

\* An invocation polls with a decoded, a non-ASCII and a defaulted name.
C2_Witness ==
    /\ Tracking(1)
    /\ fileName[1] = <<97, 32, 98>>
    /\ Tracking(2)
    /\ fileName[2] = DefaultFileName
    /\ text[2] = SentinelPrefix \o OpIdA \o <<58>>

\* C3: after n non-terminal responses followed by a response with status
\* completed, the poller has issued exactly n + 1 status requests and waited
\* exactly n times, and it ends in Completed without reporting anything.
C3_CompletedCounts ==
    \A p \in Procs :
        sawCompleted[p] =>
            /\ requests[p] = nonTerminal[p] + 1
            /\ waits[p] = nonTerminal[p]
            /\ pc[p] = "done" => (outcome[p] = "Completed" /\ reported[p] = << >>)

\* C4: transient errors and pending statuses use up one budget: every wait
\* is one attempt, whatever caused it; an invocation issues at most
\* maxAttempts status requests; and when the attempts reach maxAttempts it
\* has issued exactly maxAttempts requests, ends in TimedOut and its last
\* report is the timeout message.
C4_SharedBudget ==
    \A p \in Procs :
        /\ requests[p] <= maxAttempts
        /\ attempts[p] <= maxAttempts
        /\ waits[p] = nonTerminal[p] + refreshFailures[p]
        /\ attempts[p] = (IF pc[p] = "waiting" THEN waits[p] - 1 ELSE waits[p])
        /\ (attempts[p] = maxAttempts \/ outcome[p] = "TimedOut") =>
               /\ attempts[p] = maxAttempts
               /\ requests[p] = maxAttempts
               /\ pc[p] = "done"
               /\ outcome[p] = "TimedOut"
               /\ reported[p] # << >>
               /\ Last(reported[p]) = TimeoutMessage

\* An invocation has timed out after maxAttempts non-terminal responses.
C4_Witness ==
    \E p \in Procs :
        /\ outcome[p] = "TimedOut"
        /\ nonTerminal[p] = maxAttempts
        /\ streamError = TimeoutMessage

\* C5 as claimed: after a status failed the error sink holds the error
\* string of the response whenever the response has an error field, and
\* the fallback message only when it has none.
C5_ErrorWhenPresent ==
    \A p \in Procs :
        outcome[p] = "Failed" =>
            Last(reported[p]) =
                (IF failure[p] # Absent THEN failure[p] ELSE FailedFallbackMessage)

\* C5, amended: after a status failed the invocation has reported exactly
\* one message, the error string of the response when it has a non-empty
\* one and the fallback message when the error field is absent or empty,
\* and the poller has stopped.
C5_ErrorOrFallback ==
    \A p \in Procs :
        outcome[p] = "Failed" =>
            /\ reported[p] =
                  << IF failure[p] \notin {Absent, ""}
                     THEN failure[p] ELSE FailedFallbackMessage >>
            /\ pc[p] = "done"
            /\ requests[p] = waits[p] + 1

\* One invocation has reported the server's reason, the other the fallback
\* for an empty error field.
C5_Witness ==
    /\ outcome[1] = "Failed"
    /\ failure[1] = "bad audio"
    /\ reported[1] = <<"bad audio">>
    /\ outcome[2] = "Failed"
    /\ failure[2] = ""
    /\ streamError = FailedFallbackMessage

\* C6: an invocation that has set the busy flag and has ended, in whatever
\* way, has cleared the flag exactly once.
C6_ClearedOnce ==
    \A p \in Procs :
        (pc[p] = "done" /\ busySets[p] > 0) => busyClears[p] = 1

RECURSIVE SumInjected(_)
SumInjected(ps) ==
    IF ps = {} THEN 0
    ELSE LET q == CHOOSE x \in ps : TRUE
         IN  injected[q] + SumInjected(ps \ {q})

\* C7: the transient entries of an operation that ended Completed are no
\* longer in the local message sequence: it holds only the entries of the
\* invocations that did not end Completed.
C7_TransientGone ==
    Len(localMessages) =
        SumInjected({p \in Procs : outcome[p] # "Completed"})

\* C8: an invocation that finds no target conversation and no skill in any
\* of the three sources ends at once with the configuration error as its
\* only report: it calls createChat never, injects nothing, issues no
\* status request, and the busy flag it set is cleared.
C8_ConfigurationError ==
    \A p \in Procs :
        sources[p] = "none" =>
            /\ pc[p] = "done"
            /\ outcome[p] = "ConfigError"
            /\ reported[p] = <<ConfigErrorMessage>>
            /\ creates[p] = 0
            /\ injected[p] = 0
            /\ requests[p] = 0
            /\ targetChatId[p] = Absent
            /\ busyClears[p] = 1

\* An invocation has ended with the configuration error.
C8_Witness ==
    \E p \in Procs :
        /\ sources[p] = "none"
        /\ outcome[p] = "ConfigError"
        /\ streamError = ConfigErrorMessage
        /\ localMessages = << >>

\* Sentinel texts whose second field is no valid percent-encoding.
MalformedTexts ==
    { SentinelPrefix \o OpIdA \o <<58, 37>>,
      SentinelPrefix \o OpIdB \o <<58, 97, 37, 56, 48>> }

\* C9: an invocation with a sentinel text whose second field is malformed
\* does not throw: it goes on with the display name 'audio'.
C9_MalformedFallsBack ==
    \A p \in Procs :
        (Started(p) /\ text[p] \in MalformedTexts /\ outcome[p] # "NoWorkspace") =>
            /\ outcome[p] # "Thrown"
            /\ fileName[p] = DefaultFileName

\* The entries come in pairs: a user entry, then the processing transcript
\* entry of the same conversation, made at the same time.
PairsIntact(messages) ==
    /\ Len(messages) % 2 = 0
    /\ \A i \in 1..Len(messages) :
        i % 2 = 1 =>
            /\ messages[i].role = "user"
            /\ messages[i + 1].role = "assistant"
            /\ messages[i + 1].type = "transcript"
            /\ messages[i + 1].transcriptStatus = "processing"
            /\ messages[i + 1].chatId = messages[i].chatId
            /\ messages[i + 1].createdAt = messages[i].createdAt

\* A step in which invocation p injects: the sequence grows by exactly its
\* two entries, for its target conversation, the user entry with its file
\* name first.
InjectsPair(p) ==
    /\ injected'[p] = injected[p] + 2
    /\ TruthyStr(targetChatId'[p])
    /\ Len(localMessages') = Len(localMessages) + 2
    /\ localMessages'[Len(localMessages) + 1].role = "user"
    /\ localMessages'[Len(localMessages) + 1].content = fileName'[p]
    /\ localMessages'[Len(localMessages) + 1].chatId = targetChatId'[p]
    /\ localMessages'[Len(localMessages) + 2].role = "assistant"
    /\ localMessages'[Len(localMessages) + 2].chatId = targetChatId'[p]

\* C10: every step leaves the entries already present in place and in
\* order, appends either nothing or the two entries of the one invocation
\* that injects in it, and leaves the sequence made of whole pairs; an
\* invocation that polls has injected its two entries, once.
C10_AtomicAppend ==
    [][ /\ SubSeq(localMessages', 1, Len(localMessages)) = localMessages
        /\ PairsIntact(localMessages')
        /\ Len(localMessages') = SumInjected(Procs)'
        /\ \A p \in Procs :
            /\ injected'[p] # injected[p] => InjectsPair(p)
            /\ pc'[p] \in {"fetching", "waiting", "invalidating"} =>
                   injected'[p] = 2
            /\ (localMessages' # localMessages /\ injected'[p] = injected[p]) =>
                   \E q \in Procs \ {p} : injected'[q] # injected[q]
      ]_vars

\* Two invocations have injected for the same conversation while both poll.
C10_Witness ==
    /\ pc[1] = "waiting"
    /\ pc[2] = "fetching"
    /\ Len(localMessages) = 4
    /\ localMessages[1].chatId = localMessages[3].chatId
    /\ localMessages[1].content # localMessages[3].content

\* The indexes of the transient entries of the sequence whose
\* transcriptStatus is st.
TranscriptsWith(st) ==
    { i \in 1..Len(localMessages) :
        /\ localMessages[i].type = "transcript"
        /\ localMessages[i].transcriptStatus = st }

\* C11: the transcriptStatus of every transient entry is processing,
\* completed or failed; the entries that are still processing are those of
\* the invocations that have injected and not ended, the entries that are
\* failed are those of the invocations that ended Failed or TimedOut, and no
\* entry is retained for an invocation that ended Completed.
C11_StatusFollowsOutcome ==
    /\ \A i \in 1..Len(localMessages) :
          localMessages[i].type = "transcript" =>
              localMessages[i].transcriptStatus
                  \in {"processing", "completed", "failed"}
    /\ Cardinality(TranscriptsWith("processing"))
          = Cardinality({ p \in Procs : injected[p] = 2 /\ pc[p] # "done" })
    /\ Cardinality(TranscriptsWith("failed"))
          = Cardinality({ p \in Procs : /\ injected[p] = 2
                                        /\ outcome[p] \in {"Failed", "TimedOut"} })
    /\ TranscriptsWith("completed") = {}

\* C12: once the page has been left, no step issues a status request,
\* begins a wait, writes the error sink, the busy flag or the message
\* sequence, or invalidates the cache.
C12_NothingAfterTearDown ==
    [][tornDown =>
          /\ requests' = requests
          /\ waits' = waits
          /\ streamError' = streamError
          /\ reported' = reported
          /\ isTranscribing' = isTranscribing
          /\ busyClears' = busyClears
          /\ localMessages' = localMessages
          /\ invalidations' = invalidations]_vars

\* C13, as the specification states it: only an invocation that ends with
\* a configuration error, a server-reported failure or a timeout has
\* written the error sink.
C13_ThreeKindsOnly ==
    \A p \in Procs :
        reported[p] # << >> => outcome[p] \in {"ConfigError", "Failed", "TimedOut"}

\* C13, amended: the error sink is written at most once by an invocation,
\* as it ends, and only with the configuration error, the message of the
\* rejected createChat, the server-reported failure (or its fallback) or
\* the timeout message; every response that is neither completed nor
\* failed and every rejected refresh is answered by exactly one wait and
\* then, within the budget of 600 attempts, by one more status request.
C13_FourKindsAndRetry ==
    \A p \in Procs :
        /\ Len(reported[p]) <= 1
        /\ reported[p] # << >> =>
              /\ pc[p] = "done"
              /\ CASE outcome[p] = "ConfigError" ->
                          reported[p] = <<ConfigErrorMessage>>
                   [] outcome[p] = "CreateFailed" ->
                          reported[p][1] \in CreateErrorMessages
                   [] outcome[p] = "Failed" ->
                          reported[p] = <<FailureMessage(failure[p])>>
                   [] outcome[p] = "TimedOut" ->
                          reported[p] = <<TimeoutMessage>>
                   [] OTHER -> FALSE
        /\ outcome[p] \in {"ConfigError", "CreateFailed", "Failed", "TimedOut"}
              => Len(reported[p]) = 1
        /\ waits[p] = nonTerminal[p] + refreshFailures[p]
        /\ attempts[p] <= maxAttempts
        /\ attempts[p] = IF pc[p] = "waiting" THEN waits[p] - 1 ELSE waits[p]
        /\ requests[p] = IF requests[p] = 0 THEN 0
                         ELSE IF outcome[p] = "TimedOut" THEN attempts[p]
                         ELSE attempts[p] + 1

\* An invocation has met a transport error, waited, asked again, and the
\* error sink is still untouched; another has reported a rejected createChat.
C13_Witness ==
    \E p \in Procs :
        /\ nonTerminal[p] >= 1
        /\ requests[p] >= 2
        /\ reported[p] = << >>
        /\ \E q \in Procs : outcome[q] = "CreateFailed" /\ Len(reported[q]) = 1

\* C14: an invocation whose sentinel text carries an empty operation id
\* injects no entry and issues no status request.
C14_EmptyIdRejected ==
    \A p \in Procs :
        operationId[p] = << >> => injected[p] = 0 /\ requests[p] = 0

\* C15: once a response with status completed was received, the invocation
\* issues no further status request and begins no further wait (it awaits
\* the refresh or has ended), and it ends Completed, never Failed or
\* TimedOut, also when the refresh is rejected.
C15_CompletedTerminal ==
    \A p \in Procs :
        sawCompleted[p] =>
            /\ pc[p] \in {"invalidating", "done"}
            /\ outcome[p] \in {"none", "Completed"}

\* C16: while an invocation polls (a status request in flight, or a wait
\* running), it has written nothing but its attempt counter since the
\* injection: not the error sink, not the busy flag, not the message
\* sequence, and it has not invalidated the cache.
C16_OnlyAttemptsChange ==
    \A p \in Procs :
        pc[p] \in {"fetching", "waiting"} =>
            /\ reported[p] = << >>
            /\ busyClears[p] = 0
            /\ injected[p] = 2
            /\ refreshFailures[p] = 0
            /\ ~sawCompleted[p]

\* One invocation of the callback, alone from its start to its end.
SoloNext ==
    \/ tearDown
    \/ handleTranscription(1)
    \/ createChatSettled(1)
    \/ fetchSettled(1)
    \/ timerFired(1)
    \/ invalidateSettled(1)

\* Every createChat, every status request, every wait and every refresh
\* eventually settles: the steps that end an await are taken when they stay
\* possible.
FairSpec ==
    /\ Init
    /\ [][SoloNext]_vars
    /\ WF_vars(createChatSettled(1))
    /\ WF_vars(fetchSettled(1))
    /\ WF_vars(timerFired(1))
    /\ WF_vars(invalidateSettled(1))

\* The invocation has ended in one of the three terminal states of polling.
Terminal(p) ==
    pc[p] = "done" /\ outcome[p] \in {"Completed", "Failed", "TimedOut"}

\* C17: when every status request and every wait eventually returns, an
\* invocation that has begun to poll eventually ends Completed, Failed or
\* TimedOut, whatever the server answers, and stays in that one state; its
\* attempt counter never exceeds 600 and changes only by one, as a wait
\* that followed a non-terminal attempt runs out.
C17_EventuallyTerminal ==
    /\ \A p \in Procs : (pc[p] = "fetching") ~> Terminal(p)
    /\ [](\A p \in Procs :
            /\ attempts[p] <= maxAttempts
            /\ attempts[p] + (IF pc[p] = "waiting" THEN 1 ELSE 0)
                  = nonTerminal[p] + refreshFailures[p])
    /\ [][\A p \in Procs :
            /\ attempts'[p] # attempts[p] =>
                  /\ attempts'[p] = attempts[p] + 1
                  /\ pc[p] = "waiting"
            /\ Terminal(p) => Terminal(p)' /\ outcome'[p] = outcome[p]]_vars

\* An invocation has polled through pending responses and ended.
C17_Witness ==
    \E p \in Procs : Terminal(p) /\ attempts[p] >= 2 /\ requests[p] >= 3

\* C18: no two transient (transcript) entries of the message sequence have
\* the same id.
C18_UniqueIds ==
    \A i, j \in 1..Len(localMessages) :
        (/\ i # j
         /\ localMessages[i].type = "transcript"
         /\ localMessages[j].type = "transcript")
            => localMessages[i].id # localMessages[j].id

\* C19: an invocation that found no target conversation, resolved a skill
\* and had its createChat rejected has reported the creation error, cleared
\* the busy flag once and ended; it has no target conversation, has
\* injected no entry and issued no status request, and a rejected createChat
\* sets neither the override nor the selected conversation (they are set
\* only as a conversation is created).
C19_CreateFailedStops ==
    /\ \A p \in Procs :
          outcome[p] = "CreateFailed" =>
              /\ sources[p] = "skill"
              /\ creates[p] = 1
              /\ Len(reported[p]) = 1
              /\ reported[p][1] \in CreateErrorMessages
              /\ busyClears[p] = 1
              /\ pc[p] = "done"
              /\ targetChatId[p] = Absent
              /\ injected[p] = 0
              /\ requests[p] = 0
    /\ chats = Cardinality({ p \in Procs : /\ creates[p] = 1
                                           /\ pc[p] # "creating"
                                           /\ outcome[p] # "CreateFailed" })
    /\ chats = 0 => overrideChatId = Null /\ selectedChatId = Null

\* createChat has been rejected for an invocation, and no conversation was
\* ever adopted.
C19_Witness ==
    \E p \in Procs :
        /\ outcome[p] = "CreateFailed"
        /\ streamError \in CreateErrorMessages
        /\ overrideChatId = Null
        /\ selectedChatId = Null

\* C20: while an invocation is the only one started and has a status
\* request in flight or a wait running, the busy flag is true (set once by
\* it and not cleared); and an invocation with a target conversation has
\* appended its two entries before it issues any status request.
C20_BusyWhilePolling ==
    \A p \in Procs :
        /\ (/\ \A q \in Procs \ {p} : pc[q] = "idle"
            /\ pc[p] \in {"fetching", "waiting"})
              => /\ isTranscribing
                 /\ busySets[p] = 1
                 /\ busyClears[p] = 0
        /\ (requests[p] > 0 /\ TruthyStr(targetChatId[p])) => injected[p] = 2

\* The only invocation started is waiting between two status requests, its
\* entries injected and the busy flag set.
C20_Witness ==
    /\ pc[1] = "waiting"
    /\ pc[2] = "idle"
    /\ isTranscribing
    /\ requests[1] >= 1
    /\ injected[1] = 2
    /\ Len(localMessages) = 2

====
